---- MODULE Spec2Model ----
(***************************************************************************)
(* A model of src/BrickWall/BrickWall.py: the BrickWall object (its wall   *)
(* matrix and crossing sign), the random packer fill_wall_with_bricks run  *)
(* one loop iteration per step, create_wall, normalize_wall, the crossline *)
(* search and the crossline rendering.                                     *)
(*                                                                         *)
(* Python values that the code type-checks are records [t, v]: t is the    *)
(* Python type name and v the numeric value.  Strings are sequences of     *)
(* one-character strings.  The stored wall is a sequence of rows, each a   *)
(* sequence of integers.                                                   *)
(***************************************************************************)
EXTENDS Integers, Sequences, FiniteSets, TLC

VARIABLES
    pc,             \* where the program is: "new", "idle", "for", "while", "shuffle", "filled", "failed"
    op,             \* the public operation running (or, when idle, the last one run)
    arg,            \* the arguments of that operation, typed: <<value is None, rows of
                    \* value>> of __init__ and the wall setter, <<rows_number,
                    \* row_length>> of create_wall, <<max_row_length, shuffle_rows>> of
                    \* fill_wall_with_bricks, <<crossline_pos>> of draw_wall_border,
                    \* <<position>> of draw_wall_crossline, else <<>>
    wall,           \* self._wall
    crossing_sign,  \* self._crossing_sign
    max_row_length, \* fill_wall_with_bricks: its parameter after `-= 2`
    shuffle_rows,   \* fill_wall_with_bricks: its parameter
    ri,             \* fill_wall_with_bricks: index (1-based) of the row of the for loop
    count,          \* fill_wall_with_bricks: the local `count`
    npass,          \* normalize_wall: 0 outside it, 1 in the first fill, 2 in the second
    longest_row,    \* normalize_wall: the local `longest_row`
    ret,            \* the value the last operation returned (0: None)
    err,            \* the exception the last operation raised, "none" if it returned
    out             \* the lines the last operation printed

vars == <<pc, op, arg, wall, crossing_sign, max_row_length, shuffle_rows, ri, count,
          npass, longest_row, ret, err, out>>

----------------------------------------------------------------------------
(* Bounds of the model *)

\* a caller-supplied wall takes at most MaxCells places, sum(row) + len(row)
\* summed over its rows
MaxCells == 7
\* create_wall is called with rows_number up to MaxRows and row_length up to
\* MaxRowLen, fill_wall_with_bricks with max_row_length up to MaxRowLen
MaxRows == 2
MaxRowLen == 6
\* create_wall draws rows_number up to MaxDrawRows and row_length up to MaxDrawLen
MaxDrawRows == 1
MaxDrawLen == 10
\* normalize_wall draws extra_length up to MaxExtra
MaxExtra == 5

(* Class attributes *)
BrickWall_max_rows_number == 10
BrickWall_max_row_length == 50
BrickWall_max_extra_length == 10
\* the lower ends of randint(10, max_row_length) and randint(3, max_extra_length)
min_random_row_length == 10
min_extra_length == 3
\* create_wall: the least row_length it accepts
min_row_length == 3

Min(a, b) == IF a < b THEN a ELSE b
Max(a, b) == IF a > b THEN a ELSE b

----------------------------------------------------------------------------
(* Python values *)

PyInt(n) == [t |-> "int", v |-> n]
PyFloat(n) == [t |-> "float", v |-> n]
PyNone == [t |-> "NoneType", v |-> 0]

\* isinstance(x, int)
IsInt(x) == x.t = "int"

RECURSIVE SumSeq(_)
SumSeq(s) == IF s = <<>> THEN 0 ELSE Head(s) + SumSeq(Tail(s))

\* sum(row) + len(row), the packer's `count` of a row
RowCount(row) == SumSeq(row) + Len(row)

get_row_len(w, index) == SumSeq(w[index]) + Len(w[index]) + 1

get_max_row_len(w) ==
    CHOOSE m \in {get_row_len(w, i) : i \in 1..Len(w)} :
        \A i \in 1..Len(w) : get_row_len(w, i) <= m

is_valid(w) == \A row_index \in 2..Len(w) : get_row_len(w, row_index) = get_row_len(w, 1)

----------------------------------------------------------------------------
(* The inputs *)

\* the places a typed brick is counted for in MaxCells
Cells(x) == (IF IsInt(x) /\ x.v >= 1 THEN x.v ELSE 1) + 1

RECURSIVE RowsWithin(_, _)
\* the non-empty rows over the bricks B that take at most c places
RowsWithin(B, c) ==
    LET fit == {x \in B : Cells(x) <= c}
    IN  {<<x>> : x \in fit}
            \cup UNION {{<<x>> \o r : r \in RowsWithin(B, c - Cells(x))} : x \in fit}

RECURSIVE RowCells(_)
RowCells(row) == IF row = <<>> THEN 0 ELSE Cells(Head(row)) + RowCells(Tail(row))

RECURSIVE WallsWithin(_, _)
\* the walls of at least one such row that take at most c places
WallsWithin(B, c) ==
    LET rows == RowsWithin(B, c)
    IN  {<<r>> : r \in rows}
            \cup UNION {{<<r>> \o w : w \in WallsWithin(B, c - RowCells(r))} : r \in rows}

\* walls of positive integer bricks
GoodBricks == {PyInt(n) : n \in 1..MaxCells}
GoodWalls == WallsWithin(GoodBricks, MaxCells)

\* walls that may also hold a zero, a negative or a non-integer brick
AnyBricks == GoodBricks \cup {PyInt(0), PyInt(0 - 1), PyFloat(1)}
\* a wall with an empty row added, and the wall of no row
WithEmptyRow(walls) == {<<>>} \cup {w \o <<<<>>>> : w \in walls \cup {<<>>}}
AnyWalls == WallsWithin(AnyBricks, MaxCells) \cup WithEmptyRow(WallsWithin(AnyBricks, MaxCells))
\* those of integer bricks
AnyIntWalls ==
    WallsWithin(AnyBricks \ {PyFloat(1)}, MaxCells)
        \cup WithEmptyRow(WallsWithin(AnyBricks \ {PyFloat(1)}, MaxCells))

\* the arguments fill_wall_with_bricks is called with, <<max_row_length,
\* shuffle_rows>>: a length that leaves no place and one that does, and
\* shuffle_rows at its default
FillArgs == {min_row_length - 1, MaxRowLen} \X {FALSE}

\* the arguments create_wall is called with, <<rows_number, row_length>>: both
\* given (an integer, down to one too small, or a non-integer), both left out,
\* or one left out
CreateWallArgs ==
    ({PyFloat(1)} \cup {PyInt(n) : n \in 0..MaxRows})
        \X ({PyFloat(min_row_length)} \cup {PyInt(n) : n \in (min_row_length - 1)..MaxRowLen})
    \cup {<<PyNone, PyNone>>, <<PyNone, PyInt(min_row_length)>>, <<PyInt(1), PyNone>>}

\* the values the crossing_sign setter is called with
SignArgs == {<<"x">>, <<"*">>, <<>>, <<"x", "x">>}

\* the numeric values of a matrix of typed values
Values(rows) == [i \in 1..Len(rows) |-> [j \in 1..Len(rows[i]) |-> rows[i][j].v]]

----------------------------------------------------------------------------
(* Returning from a public operation: the locals are dead *)

ReturnTo(where, r, e, o) ==
    /\ pc' = where
    /\ ret' = r
    /\ err' = e
    /\ out' = o
    /\ max_row_length' = 0
    /\ shuffle_rows' = FALSE
    /\ ri' = 0
    /\ count' = 0
    /\ npass' = 0
    /\ longest_row' = 0

\* the call of fill_wall_with_bricks(total, shuffle_rows=shuf): line 103
StartFill(total, shuf) ==
    /\ pc' = "for"
    /\ max_row_length' = total - 2
    /\ shuffle_rows' = shuf
    /\ ri' = 1
    /\ count' = 0
    /\ ret' = PyNone
    /\ err' = "none"
    /\ out' = <<>>

----------------------------------------------------------------------------
(* fill_wall_with_bricks *)

\* `for row in self.wall:` takes the next row and sets count (lines 105-109);
\* past the last row the loop ends (line 127)
FillNextRow ==
    /\ pc = "for"
    /\ IF ri <= Len(wall)
       THEN /\ count' = IF Len(wall[ri]) = 0 THEN 0 ELSE SumSeq(wall[ri]) + Len(wall[ri])
            /\ pc' = "while"
       ELSE /\ count' = count
            /\ pc' = IF shuffle_rows THEN "shuffle" ELSE "filled"
    /\ UNCHANGED <<op, arg, wall, crossing_sign, max_row_length, shuffle_rows, ri,
                   npass, longest_row, ret, err, out>>

\* line 114: the drawn number makes the row one brick
SingleBrick(num) == (max_row_length - 1 <= num /\ num <= max_row_length) /\ count = 0
\* line 119: three or fewer places are left
FewPlacesLeft == max_row_length - count <= 3
\* a packer that takes any brick that fits, even one that leaves one place
BrickFits_AnyFit(num) == max_row_length - count >= num
\* line 123: the drawn brick fits and does not leave one place
BrickFits(num) == max_row_length - count >= num /\ max_row_length - count # num + 1

\* line 115: the brick of a row of one brick
SingleBrickLength == max_row_length
\* a last brick that leaves a place for a border the count already holds
LastBrickLength_OneLess == max_row_length - count - 1
\* line 120: the brick that fills the places left
LastBrickLength == max_row_length - count
\* draws that stop short of max_row_length, as randrange(1, max_row_length) would
NumDraws_Short == 1..(max_row_length - 1)
\* draws that start from 0, as randint(0, max_row_length) would
NumDraws_FromZero == 0..max_row_length
\* line 112: the values randint(1, max_row_length) draws from
NumDraws == 1..max_row_length

\* one iteration of `while count < max_row_length:` with the draw num (lines 111-125)
FillDraw(num) ==
    /\ pc = "while"
    /\ count < max_row_length
    /\ IF SingleBrick(num)
       THEN /\ wall' = [wall EXCEPT ![ri] = Append(@, SingleBrickLength)]
            /\ pc' = "for"
            /\ ri' = ri + 1
            /\ count' = count
       ELSE IF FewPlacesLeft
       THEN /\ wall' = [wall EXCEPT ![ri] = Append(@, LastBrickLength)]
            /\ pc' = "for"
            /\ ri' = ri + 1
            /\ count' = count
       ELSE IF BrickFits(num)
       THEN /\ wall' = [wall EXCEPT ![ri] = Append(@, num)]
            /\ count' = count + num + 1
            /\ UNCHANGED <<pc, ri>>
       ELSE UNCHANGED <<wall, pc, ri, count>>
    /\ UNCHANGED <<op, arg, crossing_sign, max_row_length, shuffle_rows,
                   npass, longest_row, ret, err, out>>

\* the while condition fails: the row is done (line 111)
FillRowDone ==
    /\ pc = "while"
    /\ ~(count < max_row_length)
    /\ pc' = "for"
    /\ ri' = ri + 1
    /\ UNCHANGED <<op, arg, wall, crossing_sign, max_row_length, shuffle_rows, count,
                   npass, longest_row, ret, err, out>>

\* the orders random.shuffle can leave a row in
Shuffles(row) ==
    {[i \in 1..Len(row) |-> row[p[i]]] : p \in Permutations(1..Len(row))}

RECURSIVE ShuffledWalls(_)
\* the walls `for row in self.wall: shuffle(row)` can leave
ShuffledWalls(w) ==
    IF w = <<>> THEN {<<>>}
    ELSE {<<r>> \o rest : r \in Shuffles(Head(w)), rest \in ShuffledWalls(Tail(w))}

\* `for row in self.wall: shuffle(row)` (lines 127-129)
ShuffleRows ==
    /\ pc = "shuffle"
    /\ \E w \in ShuffledWalls(wall) : wall' = w
    /\ pc' = "filled"
    /\ UNCHANGED <<op, arg, crossing_sign, max_row_length, shuffle_rows, ri, count,
                   npass, longest_row, ret, err, out>>

----------------------------------------------------------------------------
(* create_wall *)

\* lines 138-152, called with the typed arguments rn and rl; n and l are the
\* draws of randint(1, max_rows_number) and randint(10, max_row_length), used
\* when the argument is None.  raised is where an exception leaves the program.
CreateWallBody(rn, rl, n, l, raised) ==
    LET rows_number == IF rn = PyNone THEN PyInt(n) ELSE rn
        row_length == IF rl = PyNone THEN PyInt(l) ELSE rl
        Raise(e) == /\ ReturnTo(raised, PyNone, e, <<>>)
                    /\ wall' = wall
    IN  IF ~IsInt(rows_number) THEN Raise("TypeError")
        ELSE IF rows_number.v < 1 THEN Raise("ValueError")
        ELSE IF ~IsInt(row_length) THEN Raise("TypeError")
        ELSE IF row_length.v < min_row_length THEN Raise("ValueError")
        ELSE /\ wall' = [row \in 1..rows_number.v |-> <<>>]
             /\ StartFill(row_length.v, TRUE)
             /\ npass' = 0
             /\ longest_row' = 0

\* the draws create_wall makes for arguments left out: as far as the bounds go
RowsNumberDraws == 1..Min(BrickWall_max_rows_number, MaxDrawRows)
RowLengthDraws == min_random_row_length..Min(BrickWall_max_row_length, MaxDrawLen)

\* the public call create_wall(rows_number, row_length)
CreateWall(rn, rl) ==
    /\ pc = "idle"
    /\ op' = "create_wall"
    /\ arg' = <<rn, rl>>
    /\ \E n \in IF rn = PyNone THEN RowsNumberDraws ELSE {0},
          l \in IF rl = PyNone THEN RowLengthDraws ELSE {0} :
          CreateWallBody(rn, rl, n, l, "idle")
    /\ UNCHANGED crossing_sign

----------------------------------------------------------------------------
(* __init__ and the wall setter *)

\* `self.wall = value` (lines 70-77); is_none says that value is None, and rows
\* are the typed rows it holds otherwise.  The setter checks the module's global
\* name `wall`, not its argument (line 75).  main says how the module is run: as
\* the script (lines 246-257), where the global `wall` is the list handed to the
\* constructor, or imported, where the name is unbound and every assignment of
\* a list to self.wall raises NameError (create_wall's own, line 151, too).
\* global_rows are the rows the global names; raised is where an exception
\* leaves the program.
WallSetter(is_none, rows, main, global_rows, raised) ==
    IF ~main
    THEN /\ ReturnTo(raised, PyNone, "NameError", <<>>)
         /\ wall' = wall
    ELSE IF is_none
    THEN \E n \in RowsNumberDraws, l \in RowLengthDraws :
             CreateWallBody(PyNone, PyNone, n, l, raised)
    ELSE IF ~(\A i \in 1..Len(global_rows) : \A j \in 1..Len(global_rows[i]) :
                 IsInt(global_rows[i][j]))
    THEN /\ ReturnTo(raised, PyNone, "TypeError", <<>>)
         /\ wall' = wall
    ELSE /\ ReturnTo("idle", PyNone, "none", <<>>)
         /\ wall' = Values(rows)

\* BrickWall(value): lines 60-64.  Line 64 sets the crossing sign once line 63
\* has returned: not when the setter raises, and not before the constructor's
\* create_wall has filled its wall (CreateWallReturn).
Construct(is_none, rows, main) ==
    /\ pc = "new"
    /\ op' = "__init__"
    /\ arg' = <<is_none, rows>>
    /\ WallSetter(is_none, rows, main, rows, "failed")
    /\ crossing_sign' = IF pc' = "idle" THEN <<"x">> ELSE crossing_sign

\* `obj.wall = value` on a built object (lines 70-77), in the script: the global
\* `wall` still names the list the object was built from, so line 75 passes
\* whatever value holds
SetWall(is_none, rows) ==
    /\ pc = "idle"
    /\ op' = "wall"
    /\ arg' = <<is_none, rows>>
    /\ WallSetter(is_none, rows, TRUE, <<>>, "idle")
    /\ UNCHANGED crossing_sign

\* the crossing_sign setter (lines 83-87)
SetCrossingSign(value) ==
    /\ pc = "idle"
    /\ op' = "crossing_sign"
    /\ arg' = <<>>
    /\ IF Len(value) # 1
       THEN /\ ReturnTo("idle", PyNone, "ValueError", <<>>)
            /\ crossing_sign' = crossing_sign
       ELSE /\ ReturnTo("idle", PyNone, "none", <<>>)
            /\ crossing_sign' = value
    /\ UNCHANGED wall

----------------------------------------------------------------------------
(* find_min_brick_crossline_position: the search (lines 186-196) *)

RECURSIVE RowSeams_AllBricks(_, _)
\* a walk over row instead of row[:-1]: the row's right edge is counted too
RowSeams_AllBricks(row, c) ==
    IF row = <<>> THEN <<>>
    ELSE <<c + Head(row) + 1>> \o RowSeams_AllBricks(Tail(row), c + Head(row) + 1)

RECURSIVE RowSeams(_, _)
\* the values `count` takes over row[:-1], in order, starting from c
RowSeams(row, c) ==
    IF Len(row) <= 1 THEN <<>>
    ELSE <<c + Head(row) + 1>> \o RowSeams(Tail(row), c + Head(row) + 1)

RECURSIVE WallSeams(_)
\* every key the loops increment, in the order they do
WallSeams(w) == IF w = <<>> THEN <<>> ELSE RowSeams(Head(w), 0) \o WallSeams(Tail(w))

\* intersections[k] once the loops are done
Intersections(w, k) ==
    LET seams == WallSeams(w) IN Cardinality({i \in 1..Len(seams) : seams[i] = k})

\* min in place of max: the first key whose value is the least
Crossline_Least(w) ==
    LET seams == WallSeams(w)
        best == CHOOSE i \in 1..Len(seams) :
                    /\ \A j \in 1..Len(seams) :
                          Intersections(w, seams[j]) >= Intersections(w, seams[i])
                    /\ \A j \in 1..(i - 1) :
                          Intersections(w, seams[j]) > Intersections(w, seams[i])
    IN  IF seams = <<>> THEN 1 ELSE seams[best]

\* a search that keeps the last key of the greatest value, not the first
Crossline_LastMax(w) ==
    LET seams == WallSeams(w)
        best == CHOOSE i \in 1..Len(seams) :
                    /\ \A j \in 1..Len(seams) :
                          Intersections(w, seams[j]) <= Intersections(w, seams[i])
                    /\ \A j \in (i + 1)..Len(seams) :
                          Intersections(w, seams[j]) < Intersections(w, seams[i])
    IN  IF seams = <<>> THEN 1 ELSE seams[best]

\* max(intersections, key=intersections.get): the first key, in the order the
\* dict got its keys, whose value is the greatest; 1 if there is no key
Crossline(w) ==
    LET seams == WallSeams(w)
        best == CHOOSE i \in 1..Len(seams) :
                    /\ \A j \in 1..Len(seams) :
                          Intersections(w, seams[j]) <= Intersections(w, seams[i])
                    /\ \A j \in 1..(i - 1) :
                          Intersections(w, seams[j]) < Intersections(w, seams[i])
    IN  IF seams = <<>> THEN 1 ELSE seams[best]

----------------------------------------------------------------------------
(* normalize_wall and find_min_brick_crossline_position *)

\* normalize_wall returns: to find_min_brick_crossline_position when that is the
\* caller, which goes on to line 186, or to the program with None
NormalizeReturn(caller, w) ==
    /\ wall' = w
    /\ IF caller = "find_min_brick_crossline_position"
       THEN ReturnTo("idle", PyInt(Crossline(w)), "none", <<>>)
       ELSE ReturnTo("idle", PyNone, "none", <<>>)

\* lines 167-171
NormalizeBody(caller) ==
    IF is_valid(wall)
    THEN NormalizeReturn(caller, wall)
    ELSE /\ longest_row' = get_max_row_len(wall)
         /\ StartFill(get_max_row_len(wall), FALSE)
         /\ npass' = 1
         /\ wall' = wall

\* the public call normalize_wall()
NormalizeWall ==
    /\ pc = "idle"
    /\ op' = "normalize_wall"
    /\ arg' = <<>>
    /\ NormalizeBody("normalize_wall")
    /\ UNCHANGED crossing_sign

\* the public call find_min_brick_crossline_position() (lines 183-184)
FindMinBrickCrosslinePosition ==
    /\ pc = "idle"
    /\ op' = "find_min_brick_crossline_position"
    /\ arg' = <<>>
    /\ IF ~is_valid(wall)
       THEN NormalizeBody("find_min_brick_crossline_position")
       ELSE /\ wall' = wall
            /\ ReturnTo("idle", PyInt(Crossline(wall)), "none", <<>>)
    /\ UNCHANGED crossing_sign

\* draws of an extra length from 1, as randint(1, max_extra_length) would
ExtraLengthDraws_FromOne == 1..Min(BrickWall_max_extra_length, MaxExtra)
\* the draws of randint(3, max_extra_length): as far as the bound goes
ExtraLengthDraws == min_extra_length..Min(BrickWall_max_extra_length, MaxExtra)

\* fill_wall_with_bricks returns to create_wall, which returns (line 152): to
\* the program, or to the constructor, which sets the crossing sign (line 64)
CreateWallReturn ==
    /\ pc = "filled"
    /\ npass = 0
    /\ op # "fill_wall_with_bricks"
    /\ ReturnTo("idle", PyNone, "none", <<>>)
    /\ crossing_sign' = IF op = "__init__" THEN <<"x">> ELSE crossing_sign
    /\ UNCHANGED <<op, arg, wall>>

\* the public call fill_wall_with_bricks(max_row_length, shuffle_rows) (line 100)
FillWallWithBricks(total, shuf) ==
    /\ pc = "idle"
    /\ op' = "fill_wall_with_bricks"
    /\ arg' = <<PyInt(total), shuf>>
    /\ StartFill(total, shuf)
    /\ npass' = 0
    /\ longest_row' = 0
    /\ UNCHANGED <<wall, crossing_sign>>

\* fill_wall_with_bricks returns to the program (after line 129)
FillWallWithBricksReturn ==
    /\ pc = "filled"
    /\ npass = 0
    /\ op = "fill_wall_with_bricks"
    /\ ReturnTo("idle", PyNone, "none", <<>>)
    /\ UNCHANGED <<op, arg, wall, crossing_sign>>

\* the first fill returns to normalize_wall (lines 176-178)
NormalizeSecondFill(extra_length) ==
    /\ pc = "filled"
    /\ npass = 1
    /\ IF ~is_valid(wall)
       THEN /\ StartFill(longest_row + extra_length, FALSE)
            /\ npass' = 2
            /\ UNCHANGED <<wall, longest_row>>
       ELSE NormalizeReturn(op, wall)
    /\ UNCHANGED <<op, arg, crossing_sign>>

\* the second fill returns to normalize_wall, which returns (line 178)
NormalizeEnd ==
    /\ pc = "filled"
    /\ npass = 2
    /\ NormalizeReturn(op, wall)
    /\ UNCHANGED <<op, arg, crossing_sign>>

----------------------------------------------------------------------------
(* Rendering *)

\* c * n, for a one-character string c
Repeat(c, n) == [i \in 1..Max(n, 0) |-> c]

\* s[a:b] for 0 <= a and 0 <= b
PySlice(s, a, b) == SubSeq(s, a + 1, Min(b, Len(s)))

\* the line draw_wall_border prints (lines 203-209); crossline_pos is typed
BorderLine(w, sign, crossline_pos) ==
    LET dashes == Repeat("-", get_max_row_len(w))
        border_str == <<"+">> \o SubSeq(dashes, 2, Len(dashes) - 1) \o <<"+">>
    IN  IF crossline_pos # PyNone
        THEN PySlice(border_str, 0, crossline_pos.v) \o sign
                 \o PySlice(border_str, crossline_pos.v + 1, Len(border_str))
        ELSE border_str

RECURSIVE RowLine_FromZero(_, _, _, _)
\* a walk that counts the cells of a brick from one column too far to the right
RowLine_FromZero(row, pos, sign, position) ==
    IF row = <<>> THEN <<>>
    ELSE LET brick_length == Head(row)
             cells == [k \in 1..Max(brick_length, 0) |->
                          IF pos + k = position THEN sign ELSE <<" ">>]
             RECURSIVE Flat(_)
             Flat(ss) == IF ss = <<>> THEN <<>> ELSE Head(ss) \o Flat(Tail(ss))
         IN  Flat(cells) \o <<"|">>
                 \o RowLine_FromZero(Tail(row), pos + Max(brick_length, 0) + 1, sign, position)

RECURSIVE RowLine(_, _, _, _)
\* what lines 236-241 add to row_str for the bricks of row, the first at column pos
RowLine(row, pos, sign, position) ==
    IF row = <<>> THEN <<>>
    ELSE LET brick_length == Head(row)
             cells == [k \in 1..Max(brick_length, 0) |->
                          IF pos + k - 1 = position THEN sign ELSE <<" ">>]
             RECURSIVE Flat(_)
             Flat(ss) == IF ss = <<>> THEN <<>> ELSE Head(ss) \o Flat(Tail(ss))
         IN  Flat(cells) \o <<"|">>
                 \o RowLine(Tail(row), pos + Max(brick_length, 0) + 1, sign, position)

\* the lines draw_wall_crossline prints (lines 232-243)
CrosslineLines(w, sign, position) ==
    <<BorderLine(w, sign, PyInt(position))>>
        \o [i \in 1..Len(w) |-> <<"|">> \o RowLine(w[i], 1, sign, position)]
        \o <<BorderLine(w, sign, PyInt(position))>>

\* the lines draw_wall prints (lines 215-221): no column is the crossline's
WallLines(w, sign) ==
    <<BorderLine(w, sign, PyNone)>>
        \o [i \in 1..Len(w) |-> <<"|">> \o RowLine(w[i], 1, sign, 0)]
        \o <<BorderLine(w, sign, PyNone)>>

\* the public call draw_wall_border(crossline_pos) (lines 198-210);
\* crossline_pos is typed
DrawWallBorder(crossline_pos) ==
    /\ pc = "idle"
    /\ op' = "draw_wall_border"
    /\ arg' = <<crossline_pos>>
    /\ ReturnTo("idle", PyNone, "none", <<BorderLine(wall, crossing_sign, crossline_pos)>>)
    /\ UNCHANGED <<wall, crossing_sign>>

\* the public call draw_wall()
DrawWall ==
    /\ pc = "idle"
    /\ op' = "draw_wall"
    /\ arg' = <<>>
    /\ ReturnTo("idle", PyNone, "none", WallLines(wall, crossing_sign))
    /\ UNCHANGED <<wall, crossing_sign>>

\* the edge check of draw_wall_crossline (line 226)
CrossesEdge(w, position) == position <= 0 \/ position >= get_max_row_len(w) - 1

\* the public call draw_wall_crossline(position) (lines 223-243)
DrawWallCrossline(position) ==
    /\ pc = "idle"
    /\ op' = "draw_wall_crossline"
    /\ arg' = <<PyInt(position)>>
    /\ IF CrossesEdge(wall, position)
       THEN ReturnTo("idle", PyNone, "ValueError", <<>>)
       ELSE ReturnTo("idle", PyNone, "none", CrosslineLines(wall, crossing_sign, position))
    /\ UNCHANGED <<wall, crossing_sign>>

----------------------------------------------------------------------------
(* The program *)

Init ==
    /\ pc = "new"
    /\ op = "none"
    /\ arg = <<>>
    /\ wall = <<>>
    /\ crossing_sign = <<>>
    /\ max_row_length = 0
    /\ shuffle_rows = FALSE
    /\ ri = 0
    /\ count = 0
    /\ npass = 0
    /\ longest_row = 0
    /\ ret = PyNone
    /\ err = "none"
    /\ out = <<>>

\* the steps of fill_wall_with_bricks
Fill ==
    \/ FillNextRow
    \/ \E num \in NumDraws : FillDraw(num)
    \/ FillRowDone
    \/ ShuffleRows

\* the steps inside an operation
Step ==
    \/ Fill
    \/ CreateWallReturn
    \/ FillWallWithBricksReturn
    \/ \E extra_length \in ExtraLengthDraws : NormalizeSecondFill(extra_length)
    \/ NormalizeEnd

\* the columns draw_wall_crossline is called with: those of the wall, its edges too
Positions(w) == IF w = <<>> THEN {} ELSE 0..get_max_row_len(w)

\* the columns draw_wall_border is called with, and None
BorderArgs(w) == {PyNone} \cup {PyInt(position) : position \in Positions(w)}

\* the calls on a built object that may change its wall
CallWalls ==
    \/ SetWall(TRUE, <<>>)
    \/ \E rows \in GoodWalls : SetWall(FALSE, rows)
    \/ \E a \in CreateWallArgs : CreateWall(a[1], a[2])
    \/ \E a \in FillArgs : FillWallWithBricks(a[1], a[2])
    \/ NormalizeWall
    \/ FindMinBrickCrosslinePosition

\* the calls on a built object that draw its wall, and the setter of the sign
\* they draw with: they leave the wall as it is
CallDraw ==
    \/ \E value \in SignArgs : SetCrossingSign(value)
    \/ \E crossline_pos \in BorderArgs(wall) : DrawWallBorder(crossline_pos)
    \/ DrawWall
    \/ \E position \in Positions(wall) : DrawWallCrossline(position)

\* the calls of the public operations on a built object
Call ==
    \/ CallWalls
    \/ CallDraw

\* the constructor handed well-formed rows (or none)
ConstructGood ==
    \/ \E main \in BOOLEAN : Construct(TRUE, <<>>, main)
    \/ \E rows \in GoodWalls, main \in BOOLEAN : Construct(FALSE, rows, main)

\* the program handed well-formed rows (or none)
Next ==
    \/ ConstructGood
    \/ Call
    \/ Step

Spec == Init /\ [][Next]_vars

\* the program without the drawing: the operations that make and change walls
NextWalls ==
    \/ ConstructGood
    \/ CallWalls
    \/ Step

SpecWalls == Init /\ [][NextWalls]_vars

\* a running operation goes on, and a draw the loop can use comes up in the end:
\* a draw the loop rejects leaves the state as it is
FairSpecWalls == SpecWalls /\ WF_vars(Step)

\* the program without the operations that change the rows of a wall: the walls
\* handed to the constructor and those create_wall makes, drawn
NextDraw ==
    \/ ConstructGood
    \/ \E a \in CreateWallArgs : CreateWall(a[1], a[2])
    \/ Fill
    \/ CreateWallReturn
    \/ CallDraw

SpecDraw == Init /\ [][NextDraw]_vars

\* the constructor and the wall setter handed any rows, and the steps they take
NextConstruct ==
    \/ \E main \in BOOLEAN : Construct(TRUE, <<>>, main)
    \/ \E rows \in AnyWalls, main \in BOOLEAN : Construct(FALSE, rows, main)
    \/ SetWall(TRUE, <<>>)
    \/ \E rows \in AnyIntWalls : SetWall(FALSE, rows)
    \/ Fill
    \/ CreateWallReturn

SpecConstruct == Init /\ [][NextConstruct]_vars

----------------------------------------------------------------------------
(* The claims *)

\* every brick of the wall is at least 1
PositiveBricks(w) == \A i \in 1..Len(w) : \A j \in 1..Len(w[i]) : w[i][j] >= 1
\* the wall has a row and no row is empty
NoEmptyRow(w) == Len(w) >= 1 /\ \A i \in 1..Len(w) : Len(w[i]) >= 1

\* create_wall (or the create_wall() of the constructor or the setter handed
\* None) has returned a wall
Generated ==
    /\ pc = "idle"
    /\ err = "none"
    /\ \/ op = "create_wall"
       \/ op \in {"__init__", "wall"} /\ arg[1]

\* C1: the wall create_wall leaves, for rows_number >= 1 and row_length >= 3 and
\* whatever the draws, is valid: it has rows_number rows, each of row length
\* row_length (a number left out is one create_wall drew from its range).
C1_GeneratedWallIsValid ==
    Generated =>
        LET rn == IF op = "create_wall" THEN arg[1] ELSE PyNone
            rl == IF op = "create_wall" THEN arg[2] ELSE PyNone
        IN  /\ is_valid(wall)
            /\ IF rn = PyNone
               THEN Len(wall) \in 1..BrickWall_max_rows_number
               ELSE rn.v >= 1 /\ Len(wall) = rn.v
            /\ \A i \in 1..Len(wall) :
                  IF rl = PyNone
                  THEN get_row_len(wall, i)
                           \in min_random_row_length..BrickWall_max_row_length
                  ELSE rl.v >= min_row_length /\ get_row_len(wall, i) = rl.v

\* a generated wall of two different rows of several bricks each
C1_Witness ==
    /\ Generated
    /\ op = "create_wall"
    /\ Len(wall) = 2
    /\ Len(wall[1]) >= 2
    /\ Len(wall[2]) >= 2
    /\ wall[1] # wall[2]

\* the step of the packer's loop that appends to row ri and ends the loop on it
FinishesRow ==
    /\ pc = "while"
    /\ wall' # wall
    /\ pc' = "for" \/ ~(count' < max_row_length')

\* C2 as claimed: when the packer finishes a row for the interior width w (the
\* row length less the two border characters), sum(bricks) + count(bricks) == w.
C2_Claimed == [][FinishesRow => RowCount(wall'[ri]) = max_row_length]_vars

\* C2, amended: when the packer finishes a row for the interior width w, whichever
\* branch ends the loop, sum(bricks) + count(bricks) == w + 1: the row length is
\* the one asked for, w + 2.
C2_FinishedRowFillsWidth ==
    [][FinishesRow => /\ RowCount(wall'[ri]) = max_row_length + 1
                      /\ get_row_len(wall', ri) = max_row_length + 2]_vars

\* the packer has finished a row of three bricks or more for create_wall
C2_Witness ==
    /\ pc = "for"
    /\ op = "create_wall"
    /\ ri > 1
    /\ Len(wall[ri - 1]) >= 3
    /\ RowCount(wall[ri - 1]) = max_row_length + 1

\* C9: from create_wall with row_length >= 3, or rows handed in that are not empty
\* and hold bricks >= 1, through any calls of create_wall, normalize_wall and
\* find_min_brick_crossline_position: every brick is >= 1 at every step (the
\* packer appends no brick of 0 or less), and between calls no row is empty.
C9_RowsOfPositiveBricks ==
    /\ PositiveBricks(wall)
    /\ pc = "idle" => NoEmptyRow(wall)

\* find_min_brick_crossline_position is about to return from a normalization
\* whose second fill added bricks to rows handed in
C9_Witness ==
    /\ pc = "filled"
    /\ npass = 2
    /\ op = "find_min_brick_crossline_position"
    /\ \E i \in 1..Len(wall) : Len(wall[i]) >= 4

\* find_min_brick_crossline_position has returned
Found ==
    /\ pc = "idle"
    /\ op = "find_min_brick_crossline_position"
    /\ err = "none"

\* C10: the column find_min_brick_crossline_position returns (the fallback 1 too,
\* and after a normalization it ran) is one draw_wall_crossline accepts on the
\* wall it leaves: 0 < c < get_max_row_len() - 1.
C10_CrosslineInsideWall ==
    Found => /\ 0 < ret.v
             /\ ret.v < get_max_row_len(wall) - 1
             /\ ~CrossesEdge(wall, ret.v)

\* the fallback: rows of one brick each, and 1 returned
C10_Witness ==
    /\ Found
    /\ ret = PyInt(1)
    /\ Len(wall) = 2
    /\ \A i \in 1..Len(wall) : Len(wall[i]) = 1

\* the columns of the separators between the bricks of a row: sum(brick + 1) over
\* each prefix of the row that is neither empty nor the whole row
SeamColumns(row) == {SumSeq(SubSeq(row, 1, k)) + k : k \in 1..(Len(row) - 1)}
\* the number of rows that have a separator at column c
RowsWithSeam(w, c) == Cardinality({i \in 1..Len(w) : c \in SeamColumns(w[i])})

\* C3: normalize_wall is idempotent on rows that are not empty and hold bricks
\* >= 1 (a row one shorter than the longest, which the first fill cannot extend,
\* too): when it returns the wall is valid, whatever the draws, and called again
\* right away it returns with every row as it was.
C3_NormalizeIdempotent ==
    [][(pc' = "idle" /\ op' = "normalize_wall") =>
          /\ is_valid(wall')
          /\ (pc = "idle" /\ op = "normalize_wall") => wall' = wall]_vars

\* normalize_wall is about to return from its second fill: the first left a row
\* one shorter than the longest
C3_Witness ==
    /\ pc = "filled"
    /\ npass = 2
    /\ op = "normalize_wall"
    /\ is_valid(wall)
    /\ get_row_len(wall, 1) > longest_row

\* an operation is running
Running == pc \in {"for", "while", "shuffle", "filled"}

\* C4: in every state of the fill loop with count < the interior width, some draw
\* in [1, interior width] ends the loop or is taken, and a draw that is taken
\* raises count; so with fair draws every operation finishes.  normalize_wall
\* runs at most two fills, the second to longest + extra with extra in
\* [3, max_extra_length], and returns after it whatever it left.
C4_PackingTerminates ==
    /\ [](pc = "while" /\ count < max_row_length =>
             \E num \in NumDraws : SingleBrick(num) \/ FewPlacesLeft \/ BrickFits(num))
    /\ [][pc = "while" /\ pc' = "while" => count' >= count /\ ri' = ri]_vars
    /\ Running ~> pc = "idle"
    /\ [](/\ npass \in 0..2
          /\ npass = 2 => (max_row_length + 2) - longest_row
                              \in min_extra_length..BrickWall_max_extra_length)
    /\ [][pc = "filled" /\ npass = 2 => pc' = "idle"]_vars

\* the second fill of a normalization, in a row with room for draws it rejects
C4_Witness ==
    /\ pc = "while"
    /\ npass = 2
    /\ max_row_length - count > 3

\* C5: on a valid wall with a row of two bricks or more,
\* find_min_brick_crossline_position returns a column that is a seam of a row
\* at least, and no column is a seam of more rows.
C5_CrosslineAtBusiestSeam ==
    (Found /\ is_valid(wall) /\ \E i \in 1..Len(wall) : Len(wall[i]) >= 2) =>
        /\ RowsWithSeam(wall, ret.v) >= 1
        /\ \A c \in 0..get_max_row_len(wall) :
              RowsWithSeam(wall, c) <= RowsWithSeam(wall, ret.v)

\* the column returned is a seam of two rows, and a column before it of one
C5_Witness ==
    /\ Found
    /\ RowsWithSeam(wall, ret.v) = 2
    /\ \E c \in 1..(ret.v - 1) : RowsWithSeam(wall, c) = 1

\* find_min_brick_crossline_position returns from the normalization of the wall
\* [[2], [1, 1]]: two rows, the longest of length 5, a second fill
Returns21 ==
    /\ pc = "filled"
    /\ npass = 2
    /\ op = "find_min_brick_crossline_position"
    /\ Len(wall) = 2
    /\ longest_row = 5
    /\ wall[1][1] = 2
    /\ Len(wall[2]) >= 2
    /\ wall[2][1] = 1
    /\ wall[2][2] = 1
\* the seams the two rows share
Shared21 == SeamColumns(wall[1]) \cap SeamColumns(wall[2])

\* C6 as claimed: for the wall [[2], [1, 1]] find_min_brick_crossline_position
\* returns 3, whatever the normalization drew.
C6_Claimed == [][(Returns21 /\ pc' = "idle") => ret' = PyInt(3)]_vars

\* C6, amended: for the wall [[2], [1, 1]] it returns 3 unless the bricks the
\* normalization appended give the two rows a seam at the same column; then it
\* returns the least such column, which is 6 or more.
C6_ThreeUnlessSharedSeam ==
    [][(Returns21 /\ pc' = "idle") =>
          /\ Shared21 = {} => ret' = PyInt(3)
          /\ Shared21 # {} =>
                /\ ret'.v \in Shared21
                /\ \A c \in Shared21 : ret'.v <= c
                /\ ret'.v >= 6]_vars

\* the normalization of [[2], [1, 1]] has given the rows a common seam
C6_Witness == Returns21 /\ Shared21 # {}

\* draw_wall_crossline has printed the wall
Drawn ==
    /\ pc = "idle"
    /\ op = "draw_wall_crossline"
    /\ err = "none"

\* C7 as claimed: on a valid wall, for 0 < column < get_max_row_len() - 1, every
\* line draw_wall_crossline prints has the crossing sign at index column (lines
\* are indexed from 0), the lines of rows with a separator there too.
C7_Claimed ==
    (Drawn /\ is_valid(wall)) =>
        \A l \in 1..Len(out) : out[l][arg[1].v + 1] = crossing_sign[1]

\* C7, amended: the two border lines have the crossing sign at index column, and
\* so has the line of every row but those with a brick separator at that column,
\* which keep the "|" there.
C7_SignExceptOnSeparators ==
    (Drawn /\ is_valid(wall)) =>
        LET column == arg[1].v IN
        /\ 0 < column /\ column < get_max_row_len(wall) - 1
        /\ Len(out) = Len(wall) + 2
        /\ \A l \in 1..Len(out) : Len(out[l]) = get_max_row_len(wall)
        /\ out[1][column + 1] = crossing_sign[1]
        /\ out[Len(out)][column + 1] = crossing_sign[1]
        /\ \A i \in 1..Len(wall) :
              out[i + 1][column + 1] =
                  IF column \in SeamColumns(wall[i]) THEN "|" ELSE crossing_sign[1]

\* the column drawn is a separator in one row and inside a brick in another
C7_Witness ==
    /\ Drawn
    /\ is_valid(wall)
    /\ \E i, j \in 1..Len(wall) :
          /\ arg[1].v \in SeamColumns(wall[i])
          /\ arg[1].v \notin SeamColumns(wall[j])

\* the constructor was handed rows with a brick that is no integer or is not positive
BadRowsGiven ==
    /\ op = "__init__"
    /\ pc \in {"idle", "failed"}
    /\ ~arg[1]
    /\ \E i \in 1..Len(arg[2]) : \E j \in 1..Len(arg[2][i]) :
          ~IsInt(arg[2][i][j]) \/ arg[2][i][j].v < 1

\* C8: BrickWall(rows) fails with an error and stores no wall when a brick handed
\* in is not an integer or is not positive.
C8_Claimed == BadRowsGiven => (err # "none" /\ pc = "failed" /\ wall = <<>>)

====
